---- MODULE Spec2Model ----
(***************************************************************************)
(* The sidecar supervisor of desktop/src-tauri/src/lib.rs: the Log Watcher *)
(* task that run() spawns over the sidecar's event stream, the Port        *)
(* Registry (BackendPort, an Arc<Mutex<u16>>) it writes, the backend-port  *)
(* events it emits, and the get_backend_port command that UI threads call  *)
(* concurrently with it.                                                   *)
(*                                                                         *)
(* Text is a sequence of one-character strings.  A raw stdout line is a    *)
(* sequence of bytes: an ASCII byte is written as its character, and       *)
(* BadByte is the byte 0xFF, which is valid nowhere in UTF-8.              *)
(***************************************************************************)
EXTENDS Integers, Sequences, FiniteSets, TLC

\* ------------------------------------------------------------------ bounds

\* The number of stream events the sidecar delivers in one run of the model.
MaxEvents == 2

\* The UI threads that invoke get_backend_port.
Callers == {"ui1", "ui2"}

\* ------------------------------------------------------------------ text

U16Max == 65535

BadByte == "0xFF"
Replacement == "U+FFFD"

Digits == <<"0", "1", "2", "3", "4", "5", "6", "7", "8", "9">>

DigitChars == {Digits[i] : i \in 1..10}

\* char::to_digit(10) on a decimal digit.
DigitVal(c) == (CHOOSE i \in 1..10 : Digits[i] = c) - 1

\* The characters str::trim removes (the White_Space ones a line can carry).
WhiteSpace == {" ", "\t", "\n", "\r"}

\* The decimal numeral of n.
RECURSIVE Dec(_)
Dec(n) == IF n < 10 THEN <<Digits[n + 1]>> ELSE Dec(n \div 10) \o <<Digits[(n % 10) + 1]>>

\* The literal "SERVER_PORT=".
MARKER == <<"S", "E", "R", "V", "E", "R", "_", "P", "O", "R", "T", "=">>

\* A decoder that drops the bytes that are no UTF-8 instead of replacing them.
from_utf8_dropping(bytes) == SelectSeq(bytes, LAMBDA b : b # BadByte)

\* String::from_utf8_lossy: every byte that is no UTF-8 becomes U+FFFD; the
\* rest is kept as it is.
from_utf8_lossy(bytes) == [i \in DOMAIN bytes |-> IF bytes[i] = BadByte THEN Replacement ELSE bytes[i]]

\* str::contains(pat): pat occurs in s as a contiguous run.
contains(s, pat) ==
    \E i \in 0..(Len(s) - Len(pat)) : SubSeq(s, i + 1, i + Len(pat)) = pat

\* str::split(c), collected: the segments of s between the occurrences of c.
RECURSIVE split(_, _)
split(s, c) ==
    IF \A i \in DOMAIN s : s[i] # c
    THEN <<s>>
    ELSE LET k == CHOOSE i \in DOMAIN s : s[i] = c /\ \A j \in 1..(i - 1) : s[j] # c
         IN  <<SubSeq(s, 1, k - 1)>> \o split(SubSeq(s, k + 1, Len(s)), c)

\* The item after the first `=`, which is never missing in a marker line.
second(segs) == segs[2]

\* Iterator::last: the final item (split never yields an empty iterator).
last(segs) == segs[Len(segs)]

\* str::trim: s without its leading and trailing white space.
RECURSIVE trim_start(_)
trim_start(s) ==
    IF s # <<>> /\ s[1] \in WhiteSpace THEN trim_start(Tail(s)) ELSE s

RECURSIVE trim_end(_)
trim_end(s) ==
    IF s # <<>> /\ s[Len(s)] \in WhiteSpace THEN trim_end(SubSeq(s, 1, Len(s) - 1)) ELSE s

trim(s) == trim_end(trim_start(s))

\* Result<u16, ParseIntError>.
Ok(n) == [ok |-> TRUE, val |-> n]
Err == [ok |-> FALSE, val |-> 0]

\* An overflow test that is off by one: u16::MAX itself is refused.
OverflowsAtMax(v) == v >= U16Max

\* checked_mul and checked_add fail when the result does not fit a u16.
Overflows(v) == v > U16Max

\* The digit loop of u16::from_str: acc * 10 + digit, checked at every step.
RECURSIVE ParseDigits(_, _)
ParseDigits(s, acc) ==
    IF s = <<>> THEN Ok(acc)
    ELSE IF s[1] \notin DigitChars THEN Err
    ELSE IF Overflows(acc * 10 + DigitVal(s[1])) THEN Err
    ELSE ParseDigits(Tail(s), acc * 10 + DigitVal(s[1]))

\* str::parse::<u16>: empty text and a lone sign are errors; one leading "+"
\* is accepted; "-" is no digit of an unsigned type.
parse_u16(s) ==
    IF s = <<>> THEN Err
    ELSE IF Len(s) = 1 /\ s[1] \in {"+", "-"} THEN Err
    ELSE IF s[1] = "+" THEN ParseDigits(Tail(s), 0)
    ELSE ParseDigits(s, 0)

\* What the Stdout branch makes of a raw line: the port it detects, if any.
DetectPort(line) ==
    LET out == from_utf8_lossy(line)
    IN  IF contains(out, MARKER)
        THEN parse_u16(trim(last(split(out, "="))))
        ELSE Err

\* ---------------------------------------------------------- the stream

\* The raw stdout lines the sidecar prints in the model.
StdoutLines ==
    { MARKER \o Dec(54321),
      MARKER \o Dec(0),
      MARKER \o Dec(65535),
      MARKER \o Dec(65536),
      MARKER \o <<"-", "1">>,
      MARKER,
      MARKER \o <<"n", "o", "t", "a", "n", "u", "m", "b", "e", "r">>,
      <<"l", "o", "g", ":", " ">> \o MARKER \o Dec(8080),
      MARKER \o <<" ">> \o Dec(8080) \o <<" ", "\n">>,
      MARKER \o <<" ">> \o Dec(8080) \o <<" ">>,
      MARKER \o Dec(80) \o <<"=">> \o Dec(90),
      MARKER \o Dec(8080) \o <<" ", "m", "o", "d", "e", "=", "x">>,
      <<"p", "o", "r", "t", "=">> \o Dec(8080),
      <<"S", "E", "R", "V", "E", "R", "_", BadByte, "P", "O", "R", "T", "=">> \o Dec(8080),
      <<"l", "i", "s", "t", "e", "n", "i", "n", "g">> }

\* The raw stderr lines: an ordinary one, and one that reads as a handshake.
StderrLines ==
    { <<"w", "a", "r", "n">>,
      MARKER \o Dec(54321) }

\* CommandEvent, as the stream delivers it (an Error's text and a
\* Terminated's exit status are only logged, and are left out).
Stdout(line) == [kind |-> "Stdout", line |-> line]
Stderr(line) == [kind |-> "Stderr", line |-> line]
Error == [kind |-> "Error", line |-> <<>>]
Terminated == [kind |-> "Terminated", line |-> <<>>]

Events ==
    {Stdout(l) : l \in StdoutLines} \cup {Stderr(l) : l \in StderrLines}
        \cup {Error, Terminated}

\* The events of the runs checked for progress: one of each kind, and of the
\* stdout lines two handshakes and an ordinary line.
ProgressEvents ==
    { Stdout(MARKER \o Dec(54321)),
      Stdout(MARKER \o Dec(0)),
      Stdout(<<"l", "i", "s", "t", "e", "n", "i", "n", "g">>),
      Stderr(<<"w", "a", "r", "n">>),
      Error,
      Terminated }

\* DetectPort on every line of the model, computed once.
Detected == [l \in StdoutLines \cup StderrLines |-> DetectPort(l)]

\* ----------------------------------------------------------- the state

VARIABLES
    port_state,     \* the u16 inside BackendPort's Mutex (the Port Registry)
    port_lock,      \* who holds that Mutex: "free", "watcher" or a caller
    child_for_exit, \* the Option<CommandChild> behind child_for_exit
    rx_closed,      \* the sidecar's side of the event channel is gone
    wpc,            \* where the watcher task stands
    event,          \* the watcher's `event`: the one it is handling
    port,           \* the watcher's `port`: the number parsed off the line
    emitted,        \* the backend-port payloads handed to emit, in order
    rpc,            \* where each get_backend_port call stands
    ret,            \* what each call has read out of the guard
    handled,        \* history: the events rx.recv() has yielded, in order
    writes,         \* history: the values the watcher's stores left in the cell
    before,         \* history: the state when the last event was received
    since,          \* history: per call, the writes and emits done when it began
    cpc,            \* where the copy_image_to_clipboard call stands
    path,           \* its argument `path`
    fs,             \* the files on disk: what each path of Files holds
    dirs,           \* which of the three directory lookups succeed
    normalized,     \* its `normalized`
    candidates,     \* its `candidates`
    file_path,      \* its `file_path`
    task,           \* the closure handed to run_on_main_thread
    chan,           \* what the closure sent on tx
    result,         \* what the call returned
    clipboard,      \* the content of the system clipboard
    trace           \* history: what the call did, by which thread, in order

\* The state of the sidecar supervisor and that of the clipboard bridge.
sidecar_vars ==
    <<port_state, port_lock, child_for_exit, rx_closed, wpc, event, port,
      emitted, rpc, ret, handled, writes, before, since>>

clip_vars ==
    <<cpc, path, fs, dirs, normalized, candidates, file_path, task, chan,
      result, clipboard, trace>>

vars == <<sidecar_vars, clip_vars>>

\* `Arc::new(Mutex::new(0u16))`.
InitialPort == 0

NoEvent == [kind |-> "None", line |-> <<>>]

\* What the clipboard holds before copy_image_to_clipboard is called.
ClipboardBefore == <<"text">>

Snapshot == [port_state |-> port_state, emits |-> Len(emitted),
             child |-> child_for_exit]

Init ==
    /\ port_state = InitialPort
    /\ port_lock = "free"
    /\ child_for_exit = "Some"
    /\ rx_closed = FALSE
    /\ wpc = "await"
    /\ event = NoEvent
    /\ port = 0
    /\ emitted = <<>>
    /\ rpc = [c \in Callers |-> "idle"]
    /\ ret = [c \in Callers |-> 0]
    /\ handled = <<>>
    /\ writes = <<>>
    /\ before = Snapshot
    /\ since = [c \in Callers |-> [writes |-> 0, emits |-> 0]]
    /\ cpc = "idle"
    /\ path = <<>>
    /\ fs = [f \in {} |-> "absent"]
    /\ dirs = {}
    /\ normalized = <<>>
    /\ candidates = <<>>
    /\ file_path = <<>>
    /\ task = "none"
    /\ chan = [ok |-> FALSE, err |-> "none", path |-> <<>>]
    /\ result = [ok |-> FALSE, err |-> "none", path |-> <<>>]
    /\ clipboard = ClipboardBefore
    /\ trace = <<>>

\* ------------------------------------------------------------ the mutex

\* A lock that excludes nobody.
CanLockAlways == TRUE

\* Mutex::lock returns once nobody holds the lock.
CanLock == port_lock = "free"

\* ---------------------------------------------------------- the watcher

\* The branch with the broadcast moved before the registry write.
WatcherOrderEmitFirst == <<"emit", "lock", "store_lo", "store_hi", "unlock">>

\* The branch with the broadcast left out.
WatcherOrderNoEmit == <<"lock", "store_lo", "store_hi", "unlock">>

\* The branch with the guard kept until after the broadcast.
WatcherOrderEmitLocked == <<"lock", "store_lo", "store_hi", "emit", "unlock">>

\* The steps of the Stdout branch once a port is parsed, in program order:
\* lock the registry, store the port (a u16 store is two byte stores to
\* anyone who could watch it), drop the guard, emit.
WatcherOrder == <<"lock", "store_lo", "store_hi", "unlock", "emit">>

\* The position after position p of the branch; the loop awaits again after
\* the last.
After(p) ==
    LET i == CHOOSE k \in DOMAIN WatcherOrder : WatcherOrder[k] = p
    IN  IF i = Len(WatcherOrder) THEN "await" ELSE WatcherOrder[i + 1]

\* A parse error that is unwrapped: the task panics.
OnParseErrorPanics == wpc' = "panicked" /\ port' = port

\* `if let Ok(port) = ...parse::<u16>()` with an Err: the branch is skipped
\* and the loop awaits the next event.
OnParseError == wpc' = "await" /\ port' = port

\* CommandEvent::Stdout(line).
OnStdout(line) ==
    /\ IF Detected[line].ok
       THEN wpc' = WatcherOrder[1] /\ port' = Detected[line].val
       ELSE OnParseError
    /\ UNCHANGED <<port_state, port_lock, child_for_exit, emitted, writes>>

\* A Stderr branch that looks for the handshake as the Stdout branch does.
OnStderrParsed(line) == OnStdout(line)

\* CommandEvent::Stderr(line): logged.
OnStderr(line) ==
    UNCHANGED <<port_state, port_lock, child_for_exit, emitted, writes, wpc, port>>

\* An Error branch that gives the stream up: the loop is left.
OnErrorBreaks ==
    /\ wpc' = "done"
    /\ UNCHANGED <<port_state, port_lock, child_for_exit, emitted, writes, port>>

\* An Error branch that takes the sidecar for dead and clears the handle.
OnErrorClearsChild ==
    /\ child_for_exit' = "None"
    /\ UNCHANGED <<port_state, port_lock, emitted, writes, wpc, port>>

\* CommandEvent::Error(err): logged.
OnError ==
    UNCHANGED <<port_state, port_lock, child_for_exit, emitted, writes, wpc, port>>

\* A Terminated branch that also forgets the port.
OnTerminatedClearsPort ==
    /\ child_for_exit' = "None"
    /\ port_state' = 0
    /\ UNCHANGED <<port_lock, emitted, writes, wpc, port>>

\* A Terminated branch that leaves the loop.
OnTerminatedBreaks ==
    /\ child_for_exit' = "None"
    /\ wpc' = "done"
    /\ UNCHANGED <<port_state, port_lock, emitted, writes, port>>

\* CommandEvent::Terminated(status): logged, and the handle is cleared.  Only
\* the watcher ever locks child_for_exit, so lock, store and unlock are one
\* step.
OnTerminated ==
    /\ child_for_exit' = "None"
    /\ UNCHANGED <<port_state, port_lock, emitted, writes, wpc, port>>

\* `rx.recv().await` yields Some(e), and the match runs up to the first
\* point where another thread can interfere.
Recv(e) ==
    /\ wpc = "await"
    /\ ~rx_closed
    /\ Len(handled) < MaxEvents
    /\ event' = e
    /\ handled' = Append(handled, e)
    /\ before' = Snapshot
    /\ CASE e.kind = "Stdout" -> OnStdout(e.line)
         [] e.kind = "Stderr" -> OnStderr(e.line)
         [] e.kind = "Error" -> OnError
         [] e.kind = "Terminated" -> OnTerminated
    /\ UNCHANGED <<rx_closed, rpc, ret, since>>
    /\ UNCHANGED clip_vars

\* `port_state_inner.lock()`.
WatcherLock ==
    /\ wpc = "lock"
    /\ CanLock
    /\ port_lock' = "watcher"
    /\ wpc' = After("lock")
    /\ UNCHANGED <<port_state, child_for_exit, rx_closed, event, port, emitted,
                   rpc, ret, handled, writes, before, since>>
    /\ UNCHANGED clip_vars

\* `*p = port`, low byte.
WatcherStoreLo ==
    /\ wpc = "store_lo"
    /\ port_state' = (port_state \div 256) * 256 + (port % 256)
    /\ wpc' = After("store_lo")
    /\ UNCHANGED <<port_lock, child_for_exit, rx_closed, event, port, emitted,
                   rpc, ret, handled, writes, before, since>>
    /\ UNCHANGED clip_vars

\* `*p = port`, high byte: the store is complete.
WatcherStoreHi ==
    /\ wpc = "store_hi"
    /\ port_state' = (port \div 256) * 256 + (port_state % 256)
    /\ writes' = Append(writes, port_state')
    /\ wpc' = After("store_hi")
    /\ UNCHANGED <<port_lock, child_for_exit, rx_closed, event, port, emitted,
                   rpc, ret, handled, before, since>>
    /\ UNCHANGED clip_vars

\* The guard `p` goes out of scope.
WatcherUnlock ==
    /\ wpc = "unlock"
    /\ port_lock' = "free"
    /\ wpc' = After("unlock")
    /\ UNCHANGED <<port_state, child_for_exit, rx_closed, event, port, emitted,
                   rpc, ret, handled, writes, before, since>>
    /\ UNCHANGED clip_vars

\* `app_handle.emit("backend-port", PortPayload { port })`.
WatcherEmit ==
    /\ wpc = "emit"
    /\ emitted' = Append(emitted, port)
    /\ wpc' = After("emit")
    /\ port' = IF wpc' = "await" THEN 0 ELSE port
    /\ UNCHANGED <<port_state, port_lock, child_for_exit, rx_closed, event,
                   rpc, ret, handled, writes, before, since>>
    /\ UNCHANGED clip_vars

\* The sidecar's end of the channel is dropped: no event follows.
CloseStream ==
    /\ ~rx_closed
    /\ rx_closed' = TRUE
    /\ UNCHANGED <<port_state, port_lock, child_for_exit, wpc, event, port,
                   emitted, rpc, ret, handled, writes, before, since>>
    /\ UNCHANGED clip_vars

\* `rx.recv().await` yields None: the loop and the task end.
RecvNone ==
    /\ wpc = "await"
    /\ rx_closed
    /\ wpc' = "done"
    /\ UNCHANGED <<port_state, port_lock, child_for_exit, rx_closed, event, port,
                   emitted, rpc, ret, handled, writes, before, since>>
    /\ UNCHANGED clip_vars

\* ------------------------------------------------------ get_backend_port

\* A UI thread invokes the command.
Call(c) ==
    /\ rpc[c] = "idle"
    /\ rpc' = [rpc EXCEPT ![c] = "lock"]
    /\ since' = [since EXCEPT ![c] = [writes |-> Len(writes), emits |-> Len(emitted)]]
    /\ UNCHANGED <<port_state, port_lock, child_for_exit, rx_closed, wpc, event,
                   port, emitted, ret, handled, writes, before>>
    /\ UNCHANGED clip_vars

\* `state.0.lock().unwrap()`.
CallerLock(c) ==
    /\ rpc[c] = "lock"
    /\ CanLock
    /\ port_lock' = c
    /\ rpc' = [rpc EXCEPT ![c] = "read"]
    /\ UNCHANGED <<port_state, child_for_exit, rx_closed, wpc, event, port,
                   emitted, ret, handled, writes, before, since>>
    /\ UNCHANGED clip_vars

\* `*port`: the value is copied out of the guard.
CallerRead(c) ==
    /\ rpc[c] = "read"
    /\ ret' = [ret EXCEPT ![c] = port_state]
    /\ rpc' = [rpc EXCEPT ![c] = "return"]
    /\ UNCHANGED <<port_state, port_lock, child_for_exit, rx_closed, wpc, event,
                   port, emitted, handled, writes, before, since>>
    /\ UNCHANGED clip_vars

\* The guard is dropped and the call returns ret[c].
CallerReturn(c) ==
    /\ rpc[c] = "return"
    /\ port_lock' = "free"
    /\ rpc' = [rpc EXCEPT ![c] = "idle"]
    /\ ret' = [ret EXCEPT ![c] = 0]
    /\ since' = [since EXCEPT ![c] = [writes |-> 0, emits |-> 0]]
    /\ UNCHANGED <<port_state, child_for_exit, rx_closed, wpc, event, port,
                   emitted, handled, writes, before>>
    /\ UNCHANGED clip_vars

\* ------------------------------------------------ copy_image_to_clipboard

\* Result<(), String>: the messages are told apart by their fixed text, and a
\* read failure also carries the path it names.
ClipOk == [ok |-> TRUE, err |-> "none", path |-> <<>>]
ClipErr(msg, p) == [ok |-> FALSE, err |-> msg, path |-> p]
NoResult == [ok |-> FALSE, err |-> "none", path |-> <<>>]

\* The directories app_data_dir(), current_dir() and resource_dir() name.
APP_DATA_DIR == <<"/", "d", "a", "t", "a">>
CURRENT_DIR == <<"/", "c", "w", "d">>
RESOURCE_DIR == <<"/", "r", "e", "s">>

\* The arguments the UI passes in the model.
Paths ==
    { <<>>,
      <<" ", "\t">>,
      <<"f", "i", "l", "e", ":", "/", "/", "l", "o", "c", "a", "l", "h", "o", "s", "t", "/", "t", "m", "p", "/", "x", ".", "p", "n", "g">>,
      <<"f", "i", "l", "e", ":", "/", "/", "/", "t", "m", "p", "/", "x", ".", "p", "n", "g">>,
      <<"/", "t", "m", "p", "/", "x", ".", "p", "n", "g">>,
      <<"s", "t", "o", "r", "a", "g", "e", "/", "a", ".", "j", "p", "g">>,
      <<" ", "s", "t", "o", "r", "a", "g", "e", "/", "a", ".", "j", "p", "g", " ">>,
      <<"f", "i", "l", "e", ":", "/", "/", "s", "t", "o", "r", "a", "g", "e", "/", "a", ".", "j", "p", "g">> }

\* The paths that may hold a file, and what a path holds: nothing, an image,
\* bytes that are no image, or something that cannot be read.
Files ==
    { <<"/", "t", "m", "p", "/", "x", ".", "p", "n", "g">>,
      APP_DATA_DIR \o <<"/", "s", "t", "o", "r", "a", "g", "e", "/", "a", ".", "j", "p", "g">>,
      CURRENT_DIR \o <<"/", "s", "t", "o", "r", "a", "g", "e", "/", "a", ".", "j", "p", "g">>,
      RESOURCE_DIR \o <<"/", "s", "t", "o", "r", "a", "g", "e", "/", "a", ".", "j", "p", "g">> }

Kinds == {"absent", "image", "garbage", "unreadable"}

\* The directory lookups that can succeed or fail.
DirNames == {"app_data", "current", "resource"}

\* str::strip_prefix: Some(rest) when s starts with prefix.
starts_with(s, prefix) ==
    Len(s) >= Len(prefix) /\ SubSeq(s, 1, Len(prefix)) = prefix

strip_prefix(s, prefix) == SubSeq(s, Len(prefix) + 1, Len(s))

FILE_LOCALHOST == <<"f", "i", "l", "e", ":", "/", "/", "l", "o", "c", "a", "l", "h", "o", "s", "t">>
FILE_URL == <<"f", "i", "l", "e", ":", "/", "/">>

\* A normalization that tries the bare `file://` prefix first.
NormalizeBareFirst(trimmed) ==
    IF starts_with(trimmed, FILE_URL) THEN strip_prefix(trimmed, FILE_URL)
    ELSE IF starts_with(trimmed, FILE_LOCALHOST) THEN strip_prefix(trimmed, FILE_LOCALHOST)
    ELSE trimmed

\* `let normalized = if let Some(p) = trimmed.strip_prefix("file://localhost")
\* ... else if let Some(p) = trimmed.strip_prefix("file://") ... else trimmed`.
Normalize(trimmed) ==
    IF starts_with(trimmed, FILE_LOCALHOST) THEN strip_prefix(trimmed, FILE_LOCALHOST)
    ELSE IF starts_with(trimmed, FILE_URL) THEN strip_prefix(trimmed, FILE_URL)
    ELSE trimmed

\* Path::is_absolute on a Unix path: it has a root.
is_absolute(p) == p # <<>> /\ p[1] = "/"

\* Path::join with a relative path.
join(base, p) == base \o <<"/">> \o p

\* The candidates with the working directory tried before the data directory.
CandidatesCwdFirst(input_path, found) ==
    IF is_absolute(input_path) THEN <<input_path>>
    ELSE (IF "current" \in found THEN <<join(CURRENT_DIR, input_path)>> ELSE <<>>)
         \o (IF "app_data" \in found THEN <<join(APP_DATA_DIR, input_path)>> ELSE <<>>)
         \o (IF "resource" \in found THEN <<join(RESOURCE_DIR, input_path)>> ELSE <<>>)
         \o <<input_path>>

\* `candidates`: the path itself when absolute; else the path under each
\* directory whose lookup succeeded, then the path as it is.
Candidates(input_path, found) ==
    IF is_absolute(input_path) THEN <<input_path>>
    ELSE (IF "app_data" \in found THEN <<join(APP_DATA_DIR, input_path)>> ELSE <<>>)
         \o (IF "current" \in found THEN <<join(CURRENT_DIR, input_path)>> ELSE <<>>)
         \o (IF "resource" \in found THEN <<join(RESOURCE_DIR, input_path)>> ELSE <<>>)
         \o <<input_path>>

\* What the disk holds at p; a relative path is looked up from the working
\* directory, and not at all when there is none.
KindOf(p) ==
    LET full == IF is_absolute(p) THEN p ELSE join(CURRENT_DIR, p)
    IN  IF ~is_absolute(p) /\ "current" \notin dirs THEN "absent"
        ELSE IF full \in DOMAIN fs THEN fs[full]
        ELSE "absent"

\* Path::exists.
exists(p) == KindOf(p) # "absent"

\* An empty test that forgets to trim.
IsEmptyUntrimmed(p) == p = <<>>

\* `path.trim().is_empty()`.
IsEmpty(p) == trim(p) = <<>>

\* `candidates.first().cloned().unwrap()`.
Fallback(cands) == cands[1]

\* `candidates.iter().find(|p| p.exists())`, or else the fallback.
SelectPath(cands) ==
    IF \E i \in DOMAIN cands : exists(cands[i])
    THEN cands[CHOOSE i \in DOMAIN cands :
                  exists(cands[i]) /\ \A j \in 1..(i - 1) : ~exists(cands[j])]
    ELSE Fallback(cands)

\* The exists() calls find makes: candidate after candidate, up to the first
\* that exists.
Probes(cands) ==
    LET n == IF \E i \in DOMAIN cands : exists(cands[i])
             THEN CHOOSE i \in DOMAIN cands :
                      exists(cands[i]) /\ \A j \in 1..(i - 1) : ~exists(cands[j])
             ELSE Len(cands)
    IN  [i \in 1..n |-> [op |-> "exists", arg |-> cands[i], by |-> "invoker"]]

\* `std::fs::read` succeeds on a file that is there and can be read.
readable(kind) == kind \in {"image", "garbage"}

\* A decoder that accepts any bytes.
decodes_anything(kind) == TRUE

\* `image::load_from_memory` succeeds on the bytes of an image.
decodes(kind) == kind = "image"

Did(op, arg, by) == [op |-> op, arg |-> arg, by |-> by]

\* The UI invokes the command with some path, on some disk.
CopyInvoke ==
    /\ cpc = "idle"
    /\ cpc' = "check"
    /\ \E p \in Paths, disk \in [Files -> Kinds], found \in SUBSET DirNames :
        /\ path' = p
        /\ fs' = disk
        /\ dirs' = found
    /\ UNCHANGED <<normalized, candidates, file_path, task, chan, result,
                   clipboard, trace>>
    /\ UNCHANGED sidecar_vars

\* `if trimmed.is_empty() { return Err("path is empty") }`.
CopyCheckEmpty ==
    /\ cpc = "check"
    /\ IF IsEmpty(path)
       THEN cpc' = "returned" /\ result' = ClipErr("path is empty", <<>>)
       ELSE cpc' = "resolve" /\ result' = result
    /\ UNCHANGED <<path, fs, dirs, normalized, candidates, file_path, task, chan,
                   clipboard, trace>>
    /\ UNCHANGED sidecar_vars

\* Normalization, the candidate list and the choice of file_path.
CopyResolve ==
    /\ cpc = "resolve"
    /\ normalized' = Normalize(trim(path))
    /\ candidates' = Candidates(normalized', dirs)
    /\ file_path' = SelectPath(candidates')
    /\ trace' = trace \o Probes(candidates')
    /\ cpc' = "read"
    /\ UNCHANGED <<path, fs, dirs, task, chan, result, clipboard>>
    /\ UNCHANGED sidecar_vars

\* `std::fs::read(&file_path)`.
CopyRead ==
    /\ cpc = "read"
    /\ trace' = Append(trace, Did("read", file_path, "invoker"))
    /\ IF readable(KindOf(file_path))
       THEN cpc' = "decode" /\ result' = result
       ELSE cpc' = "returned" /\ result' = ClipErr("read file failed", file_path)
    /\ UNCHANGED <<path, fs, dirs, normalized, candidates, file_path, task, chan,
                   clipboard>>
    /\ UNCHANGED sidecar_vars

\* `image::load_from_memory(&bytes)`.
CopyDecode ==
    /\ cpc = "decode"
    /\ trace' = Append(trace, Did("decode", file_path, "invoker"))
    /\ IF decodes(KindOf(file_path))
       THEN cpc' = "dispatch" /\ result' = result
       ELSE cpc' = "returned" /\ result' = ClipErr("decode image failed", <<>>)
    /\ UNCHANGED <<path, fs, dirs, normalized, candidates, file_path, task, chan,
                   clipboard>>
    /\ UNCHANGED sidecar_vars

\* `app.run_on_main_thread(closure)`: the closure is queued, or the call fails.
CopyDispatch ==
    /\ cpc = "dispatch"
    /\ trace' = Append(trace, Did("dispatch", <<>>, "invoker"))
    /\ \E queued \in BOOLEAN :
        IF queued
        THEN cpc' = "recv" /\ task' = "queued" /\ result' = result
        ELSE /\ cpc' = "returned"
             /\ task' = "none"
             /\ result' = ClipErr("run_on_main_thread failed", <<>>)
    /\ UNCHANGED <<path, fs, dirs, normalized, candidates, file_path, chan,
                   clipboard>>
    /\ UNCHANGED sidecar_vars

\* The thread the closure runs on.
RunsOn == "main"

\* The closure runs: Clipboard::new(), set_image, tx.send(result).  What a
\* failed set_image leaves in the clipboard is the clipboard library's affair:
\* the old content or none.
MainRun ==
    /\ task = "queued"
    /\ task' = "reported"
    /\ \E init_ok \in BOOLEAN, set_ok \in BOOLEAN, cleared \in BOOLEAN :
        IF ~init_ok
        THEN /\ trace' = Append(trace, Did("clipboard_init", <<>>, RunsOn))
             /\ chan' = ClipErr("clipboard init failed", <<>>)
             /\ clipboard' = clipboard
        ELSE /\ trace' = trace \o <<Did("clipboard_init", <<>>, RunsOn),
                                    Did("set_image", file_path, RunsOn)>>
             /\ IF set_ok
                THEN chan' = ClipOk /\ clipboard' = <<"image", file_path>>
                ELSE /\ chan' = ClipErr("clipboard set image failed", <<>>)
                     /\ clipboard' = IF cleared THEN <<>> ELSE clipboard
    /\ UNCHANGED <<cpc, path, fs, dirs, normalized, candidates, file_path, result>>
    /\ UNCHANGED sidecar_vars

\* The closure is dropped without having run, and tx with it.
MainDrop ==
    /\ task = "queued"
    /\ task' = "dropped"
    /\ UNCHANGED <<cpc, path, fs, dirs, normalized, candidates, file_path, chan,
                   result, clipboard, trace>>
    /\ UNCHANGED sidecar_vars

\* A receive that gives up while the closure is still queued.
RecvReadyAlways == TRUE

\* `rx.recv()` blocks until a result was sent or the sender is gone.
RecvReady == task \in {"reported", "dropped"}

\* `rx.recv().map_err(|_| "clipboard task aborted")?`.
CopyRecv ==
    /\ cpc = "recv"
    /\ RecvReady
    /\ cpc' = "returned"
    /\ result' = IF task = "reported" THEN chan
                 ELSE ClipErr("clipboard task aborted", <<>>)
    /\ UNCHANGED <<path, fs, dirs, normalized, candidates, file_path, task, chan,
                   clipboard, trace>>
    /\ UNCHANGED sidecar_vars

\* ------------------------------------------------------ specification

\* The watcher task, fed the events of E.
Watcher(E) ==
    \/ \E e \in E : Recv(e)
    \/ WatcherLock
    \/ WatcherStoreLo
    \/ WatcherStoreHi
    \/ WatcherUnlock
    \/ WatcherEmit
    \/ RecvNone

\* The UI threads.
Caller ==
    \E c \in Callers : Call(c) \/ CallerLock(c) \/ CallerRead(c) \/ CallerReturn(c)

Next ==
    \/ Watcher(Events)
    \/ CloseStream
    \/ Caller

\* The same program over the events checked for progress.
ProgressNext ==
    \/ Watcher(ProgressEvents)
    \/ CloseStream
    \/ Caller

Spec == Init /\ [][Next]_vars

\* The clipboard bridge: one call of the command, and the main thread.
ClipNext ==
    \/ CopyInvoke
    \/ CopyCheckEmpty
    \/ CopyResolve
    \/ CopyRead
    \/ CopyDecode
    \/ CopyDispatch
    \/ MainRun
    \/ MainDrop
    \/ CopyRecv

ClipSpec == Init /\ [][ClipNext]_vars

\* Fair scheduling: a thread that can take its next step takes it, and a
\* thread waiting for the lock gets it if the lock keeps coming free.  Nothing
\* makes the sidecar print or a UI thread call.
Fairness ==
    /\ WF_vars(WatcherStoreLo)
    /\ WF_vars(WatcherStoreHi)
    /\ WF_vars(WatcherUnlock)
    /\ WF_vars(WatcherEmit)
    /\ SF_vars(WatcherLock)
    /\ WF_vars(RecvNone)
    /\ \A c \in Callers :
        /\ SF_vars(CallerLock(c))
        /\ WF_vars(CallerRead(c))
        /\ WF_vars(CallerReturn(c))

FairSpec == Init /\ [][ProgressNext]_vars /\ Fairness

\* ------------------------------------------------------------- claims

\* The watcher has handled its last event to the end.
Handled == wpc \in {"await", "done"} /\ handled # <<>>

\* The ports n of 0..65535 whose line `SERVER_PORT=<n>` the sidecar prints.
ExactLinePorts == {n \in 0..U16Max : MARKER \o Dec(n) \in StdoutLines}

\* C1: once the watcher has handled a stdout line that reads exactly
\* `SERVER_PORT=<n>`, n a decimal number of 0..65535, the Port Registry holds
\* n and exactly one backend-port event, carrying n, was emitted for the line.
C1_ExactLineSetsPortAndEmitsOnce ==
    \A n \in ExactLinePorts :
        (Handled /\ event = Stdout(MARKER \o Dec(n)))
            => /\ port_state = n
               /\ Len(emitted) = before.emits + 1
               /\ emitted[Len(emitted)] = n

C1_Witness ==
    /\ Handled
    /\ event = Stdout(MARKER \o Dec(54321))
    /\ port_state = 54321
    /\ emitted = <<54321>>

\* The value the registry holds after the watcher's k-th completed store.
ValueAfter(k) == IF k = 0 THEN InitialPort ELSE writes[k]

\* C2: the registry write of a parsed marker line happens before its
\* broadcast: the broadcasts made so far are those of the first stores made so
\* far (none is emitted for a line whose store has not been performed), and a
\* caller of get_backend_port that began after k >= 1 broadcasts reads the
\* value of the k-th store or of a later one, never an earlier value.
C2_WriteBeforeBroadcast ==
    /\ Len(emitted) <= Len(writes)
    /\ \A i \in DOMAIN emitted : emitted[i] = writes[i]
    /\ \A c \in Callers :
        (rpc[c] = "return" /\ since[c].emits >= 1)
            => \E j \in since[c].emits..Len(writes) : ret[c] = writes[j]

C2_Witness ==
    \E c \in Callers :
        /\ rpc[c] = "return"
        /\ since[c].emits = 1
        /\ Len(writes) = 2
        /\ writes[1] # writes[2]
        /\ ret[c] = writes[2]

\* C3: while the sidecar is alive (no Terminated event handled), once the
\* registry has been set to a nonzero value it never holds 0 again.
C3_NeverResetToZero ==
    (child_for_exit = "Some" /\ port_lock # "watcher"
        /\ \E i \in DOMAIN writes : writes[i] # 0)
        => port_state # 0

\* A stdout event whose line yields a port.
ParsedLine(e) == e.kind = "Stdout" /\ Detected[e.line].ok

\* The events whose handling has got past the registry store / past the
\* broadcast: all those received, but for the one still in the branch.
Stored == IF wpc \in {"lock", "store_lo", "store_hi"} THEN SubSeq(handled, 1, Len(handled) - 1) ELSE handled
Broadcast == IF wpc \in {"await", "done"} THEN handled ELSE SubSeq(handled, 1, Len(handled) - 1)

\* The ports of the parsed marker lines among the events h, in order.
RECURSIVE PortsOf(_)
PortsOf(h) ==
    IF h = <<>> THEN <<>>
    ELSE IF ParsedLine(h[1]) THEN <<Detected[h[1].line].val>> \o PortsOf(Tail(h))
    ELSE PortsOf(Tail(h))

\* C4, as stated: the watcher writes the registry at most once in a sidecar's
\* lifetime.
C4_WrittenOncePerLifetime == Len(writes) <= 1

\* C4, amended: the watcher writes the registry once per successfully parsed
\* marker line (so again for every later one), and nothing else writes it:
\* whenever the watcher is not inside its store, the registry holds the value
\* of the watcher's last store, or the initial 0 before any.
C4_WrittenOncePerParsedLine ==
    /\ Len(writes) = Len(PortsOf(Stored))
    /\ port_lock # "watcher" => port_state = ValueAfter(Len(writes))

C4_Witness ==
    /\ Handled
    /\ Len(writes) = 2
    /\ \E c \in Callers : rpc[c] = "return"

\* The stdout events among h whose text contains the marker.
MarkerLines(h) ==
    {i \in DOMAIN h : h[i].kind = "Stdout" /\ contains(from_utf8_lossy(h[i].line), MARKER)}

\* C5: the broadcasts made are, in order, the ports of the successfully
\* parsed marker lines handled so far, one for each, and they are no more than
\* the handshake lines (lines with the marker) seen.
C5_OneBroadcastPerParsedLine ==
    /\ emitted = PortsOf(Broadcast)
    /\ Len(emitted) <= Cardinality(MarkerLines(handled))

C5_Witness ==
    /\ Handled
    /\ Len(emitted) = 2
    /\ emitted[1] # emitted[2]

\* C6: handling a stdout byte sequence that does not contain the bytes of
\* `SERVER_PORT=` leaves the registry as it was and emits nothing.
C6_NoMarkerNoEffect ==
    (event.kind = "Stdout" /\ ~contains(event.line, MARKER))
        => /\ wpc \in {"await", "done"}
           /\ port_state = before.port_state
           /\ Len(emitted) = before.emits

C6_Witness ==
    /\ event.kind = "Stdout"
    /\ BadByte \in {event.line[i] : i \in DOMAIN event.line}
    /\ ~contains(event.line, MARKER)
    /\ wpc = "await"
    /\ port_state = 54321

\* The marker lines the claim names as not parsing.
C7_Examples ==
    { MARKER \o <<"n", "o", "t", "a", "n", "u", "m", "b", "e", "r">>,
      MARKER,
      MARKER \o Dec(65536),
      MARKER \o <<"-", "1">> }

\* A line with the marker whose final segment is no u16.
UnparsedMarkerLine(line) ==
    \/ line \in C7_Examples
    \/ /\ contains(from_utf8_lossy(line), MARKER)
       /\ ~parse_u16(trim(last(split(from_utf8_lossy(line), "=")))).ok

\* C7: a stdout line with the marker whose final `=` segment, trimmed, is no
\* u16 leaves the registry as it was and emits nothing; no error stops the
\* watcher, which awaits the next event (or has ended on a closed stream).
C7_UnparsedMarkerLineIgnored ==
    (event.kind = "Stdout" /\ UnparsedMarkerLine(event.line))
        => /\ wpc = "await" \/ (wpc = "done" /\ rx_closed)
           /\ port_state = before.port_state
           /\ Len(emitted) = before.emits

C7_Witness ==
    /\ Len(handled) = 2
    /\ handled[1] = Stdout(MARKER \o Dec(65536))
    /\ handled[2] = Stdout(MARKER \o Dec(54321))
    /\ emitted = <<54321>>

\* C8: get_backend_port returns 0 while no marker line has been parsed and
\* stored, and afterwards the port of the last parsed marker line stored;
\* stderr, stream-error and Terminated events count for nothing in it.
C8_ReturnsLastParsedPort ==
    \A c \in Callers :
        rpc[c] = "return"
            => ret[c] = IF PortsOf(Stored) = <<>> THEN 0
                        ELSE PortsOf(Stored)[Len(PortsOf(Stored))]

C8_Witness ==
    \E c \in Callers :
        /\ rpc[c] = "return"
        /\ handled = <<Stdout(MARKER \o Dec(54321)), Terminated>>
        /\ ret[c] = 54321

\* C9: a get_backend_port call never holds the registry while the watcher is
\* inside its store, nor while another call holds it, and what it returns is
\* the value of a completed store: the one in place when the call began or a
\* later one, never a mix of two.
C9_ReadsOldOrNew ==
    \A c \in Callers :
        /\ rpc[c] \in {"read", "return"}
            => /\ wpc \notin {"store_lo", "store_hi", "unlock"}
               /\ \A d \in Callers \ {c} : rpc[d] \notin {"read", "return"}
        /\ rpc[c] = "return"
            => \E k \in since[c].writes..Len(writes) : ret[c] = ValueAfter(k)

C9_Witness ==
    \E c \in Callers :
        /\ rpc[c] = "return"
        /\ wpc = "lock"
        /\ since[c].writes = 0
        /\ writes = <<54321>>
        /\ ret[c] = 54321

\* The registry lock is held only between a lock and the drop of its guard:
\* not by the watcher while it awaits an event, waits for the lock or
\* broadcasts, and not by a caller outside its read.
LockScope ==
    /\ wpc \in {"await", "lock", "emit", "done"} => port_lock # "watcher"
    /\ \A c \in Callers : rpc[c] \in {"idle", "lock"} => port_lock # c

\* Whoever holds the lock stands where its next steps, up to the release,
\* wait for nothing.
HolderRuns ==
    /\ port_lock = "watcher" => wpc \in {"store_lo", "store_hi", "unlock"}
    /\ \A c \in Callers : port_lock = c => rpc[c] \in {"read", "return"}

\* C10: the registry lock is never held across the watcher's await or its
\* broadcast, so no state is a deadlock (the holder of the lock can always
\* run to its release), and under fair scheduling every get_backend_port call
\* that starts returns.
C10_NoDeadlockAndCallsReturn ==
    /\ [](LockScope /\ HolderRuns)
    /\ \A c \in Callers : (rpc[c] # "idle") ~> (rpc[c] = "idle")

C10_Witness ==
    /\ wpc = "store_hi"
    /\ port_lock = "watcher"
    /\ \A c \in Callers : rpc[c] = "lock"

\* C11: the Child Process Handle is present from the spawn until the watcher
\* handles a Terminated event and absent ever after: a second Terminated
\* leaves it absent, no stdout, stderr or stream-error event changes it, and
\* nothing makes it present again.
C11_ChildAbsentOnceTerminated ==
    /\ child_for_exit = IF \E i \in DOMAIN handled : handled[i] = Terminated
                        THEN "None" ELSE "Some"
    /\ event.kind \in {"Stdout", "Stderr", "Error"} => child_for_exit = before.child

C11_Witness ==
    /\ handled = <<Terminated, Terminated>>
    /\ before.child = "None"
    /\ child_for_exit = "None"

\* The text after the last `=` of s (all of s when it has none).
FinalSegment(s) ==
    LET eqs == {i \in DOMAIN s : s[i] = "="}
    IN  IF eqs = {} THEN s
        ELSE SubSeq(s, (CHOOSE i \in eqs : \A j \in eqs : j <= i) + 1, Len(s))

\* The last event was a stdout line that left the registry and the
\* broadcasts as they were / that set the registry to n and broadcast n once.
YieldedNoPort ==
    /\ port_state = before.port_state
    /\ Len(emitted) = before.emits

YieldedPort(n) ==
    /\ port_state = n
    /\ Len(emitted) = before.emits + 1
    /\ emitted[Len(emitted)] = n

\* C17: the port of a marker line is read off the text after the LAST `=` of
\* the whole line, trimmed: what the watcher does with a stdout line that
\* contains the marker is what parse-u16 of that segment says.  So
\* `log: SERVER_PORT=8080` and `SERVER_PORT= 8080 ` yield 8080,
\* `SERVER_PORT=80=90` yields 90 and `SERVER_PORT=8080 mode=x` yields no port.
C17_PortFromFinalSegment ==
    (Handled /\ event.kind = "Stdout")
        => /\ contains(from_utf8_lossy(event.line), MARKER)
                => LET r == parse_u16(trim(FinalSegment(from_utf8_lossy(event.line))))
                   IN  IF r.ok THEN YieldedPort(r.val) ELSE YieldedNoPort
           /\ event.line = <<"l", "o", "g", ":", " ">> \o MARKER \o Dec(8080)
                => YieldedPort(8080)
           /\ event.line = MARKER \o <<" ">> \o Dec(8080) \o <<" ">>
                => YieldedPort(8080)
           /\ event.line = MARKER \o Dec(80) \o <<"=">> \o Dec(90)
                => YieldedPort(90)
           /\ event.line = MARKER \o Dec(8080) \o <<" ", "m", "o", "d", "e", "=", "x">>
                => YieldedNoPort

C17_Witness ==
    /\ Handled
    /\ event = Stdout(MARKER \o Dec(80) \o <<"=">> \o Dec(90))
    /\ port_state = 90
    /\ emitted = <<90>>

\* C18: a stderr line is never parsed: handling it, even when it reads as a
\* handshake line, leaves the registry and the Child Process Handle as they
\* were and emits nothing.
C18_StderrNeverParsed ==
    event.kind = "Stderr"
        => /\ wpc \in {"await", "done"}
           /\ port_state = before.port_state
           /\ child_for_exit = before.child
           /\ Len(emitted) = before.emits

C18_Witness ==
    /\ handled = <<Stderr(MARKER \o Dec(54321))>>
    /\ wpc = "await"
    /\ port_state = 0
    /\ emitted = <<>>

\* C19: a stream-error event changes no state and does not end the watcher
\* (it awaits the next event, and is done only once the stream has closed);
\* a valid handshake line that arrives after a stream error still sets the
\* registry and is broadcast.
C19_StreamErrorDoesNotStopWatcher ==
    /\ event = Error
        => /\ wpc = "await" \/ (wpc = "done" /\ rx_closed)
           /\ port_state = before.port_state
           /\ child_for_exit = before.child
           /\ Len(emitted) = before.emits
    /\ \A n \in ExactLinePorts :
        (/\ Handled
         /\ event = Stdout(MARKER \o Dec(n))
         /\ \E i \in 1..(Len(handled) - 1) : handled[i] = Error)
            => YieldedPort(n)

C19_Witness ==
    /\ handled = <<Error, Stdout(MARKER \o Dec(54321))>>
    /\ wpc = "await"
    /\ port_state = 54321
    /\ emitted = <<54321>>

\* C20: the watcher task ends when, and only when, the event stream closes.
\* It is done only after the stream closed; a Terminated event by itself does
\* not end it, and the events after one are handled; once the stream is closed
\* the task finishes (under fair scheduling), and a finished task writes no
\* registry, changes no child handle and broadcasts nothing.
C20_EndsOnlyWhenStreamCloses ==
    /\ [](wpc = "done" => rx_closed)
    /\ [](event = Terminated => (wpc = "await" \/ (wpc = "done" /\ rx_closed)))
    /\ []((Handled /\ Len(handled) >= 2 /\ handled[Len(handled) - 1] = Terminated
              /\ event = Stdout(MARKER \o Dec(54321)))
            => YieldedPort(54321))
    /\ rx_closed ~> (wpc = "done")
    /\ [][wpc = "done"
            => UNCHANGED <<wpc, port_state, child_for_exit, emitted, handled>>]_vars

C20_Witness ==
    /\ handled = <<Terminated, Stdout(MARKER \o Dec(54321))>>
    /\ emitted = <<54321>>
    /\ rx_closed
    /\ wpc = "done"

\* C12: a call with an empty or whitespace-only path returns "path is empty"
\* and has touched no file (no existence check, no read), built no candidate
\* and dispatched nothing to the main thread.
Blank(p) == \A i \in DOMAIN p : p[i] \in WhiteSpace

C12_EmptyPathRejectedUntouched ==
    (cpc \notin {"idle", "check"} /\ Blank(path)) =>
        /\ cpc = "returned"
        /\ result = ClipErr("path is empty", <<>>)
        /\ trace = <<>>
        /\ candidates = <<>>
        /\ task = "none"
        /\ clipboard = ClipboardBefore

C12_Witness ==
    /\ cpc = "returned"
    /\ path = <<" ", "\t">>
    /\ result = ClipErr("path is empty", <<>>)
    /\ trace = <<>>

\* C13: for a path that is not blank, normalized is what follows
\* `file://localhost` when the trimmed path starts with it; else what follows
\* `file://` when it starts with that; else the trimmed path itself.  So
\* file://localhost/tmp/x.png is /tmp/x.png when the candidates are built.
Resolved == cpc \notin {"idle", "check", "resolve"} /\ ~Blank(path)

HasPrefix(s, prefix) == \E rest \in {SubSeq(s, k, Len(s)) : k \in 1..(Len(s) + 1)} : s = prefix \o rest

C13_NormalizationRules ==
    Resolved =>
        LET t == trim(path)
        IN  /\ HasPrefix(t, FILE_LOCALHOST) => t = FILE_LOCALHOST \o normalized
            /\ (~HasPrefix(t, FILE_LOCALHOST) /\ HasPrefix(t, FILE_URL)) =>
                    t = FILE_URL \o normalized
            /\ (~HasPrefix(t, FILE_LOCALHOST) /\ ~HasPrefix(t, FILE_URL)) =>
                    normalized = t
            /\ path = <<"f", "i", "l", "e", ":", "/", "/", "l", "o", "c", "a", "l", "h", "o", "s", "t", "/", "t", "m", "p", "/", "x", ".", "p", "n", "g">> =>
                    /\ normalized = <<"/", "t", "m", "p", "/", "x", ".", "p", "n", "g">>
                    /\ candidates = <<<<"/", "t", "m", "p", "/", "x", ".", "p", "n", "g">>>>

C13_Witness ==
    /\ cpc = "read"
    /\ path = <<"f", "i", "l", "e", ":", "/", "/", "l", "o", "c", "a", "l", "h", "o", "s", "t", "/", "t", "m", "p", "/", "x", ".", "p", "n", "g">>
    /\ normalized = <<"/", "t", "m", "p", "/", "x", ".", "p", "n", "g">>
    /\ candidates = <<normalized>>

\* C14: an absolute normalized path is the sole candidate; a relative one
\* gives the path under the app data directory, under the working directory,
\* under the resource directory, then the path as it is.  The read is made on
\* the first candidate that exists, or on the first candidate when none does,
\* and a "read file failed" error names exactly that path.
ReadsOf(tr) == {i \in DOMAIN tr : tr[i].op = "read"}

ReadOnChosenCandidate ==
    /\ \E i \in DOMAIN candidates :
          /\ file_path = candidates[i]
          /\ \A j \in 1..(i - 1) : ~exists(candidates[j])
          /\ exists(candidates[i]) \/ (i = 1 /\ \A j \in DOMAIN candidates : ~exists(candidates[j]))
    /\ cpc # "read" =>
          /\ Cardinality(ReadsOf(trace)) = 1
          /\ \A i \in ReadsOf(trace) : trace[i].arg = file_path
    /\ (cpc = "returned" /\ result.err = "read file failed") => result.path = file_path
    /\ (cpc = "returned" /\ ~readable(KindOf(file_path))) =>
          result = ClipErr("read file failed", file_path)

C14_FourCandidatesInOrder ==
    Resolved =>
        /\ is_absolute(normalized) => candidates = <<normalized>>
        /\ ~is_absolute(normalized) =>
              candidates = << APP_DATA_DIR \o <<"/">> \o normalized,
                              CURRENT_DIR \o <<"/">> \o normalized,
                              RESOURCE_DIR \o <<"/">> \o normalized,
                              normalized >>
        /\ ReadOnChosenCandidate

\* C14 as the code has it: a directory that cannot be determined contributes
\* no candidate, so a relative path gives the path under those of the three
\* directories that are resolved, in the same order, then the path as it is.
Under(dir, name) == IF name \in dirs THEN <<dir \o <<"/">> \o normalized>> ELSE <<>>

C14_ResolvedCandidatesInOrder ==
    Resolved =>
        /\ is_absolute(normalized) => candidates = <<normalized>>
        /\ ~is_absolute(normalized) =>
              candidates = Under(APP_DATA_DIR, "app_data") \o Under(CURRENT_DIR, "current")
                           \o Under(RESOURCE_DIR, "resource") \o <<normalized>>
        /\ ReadOnChosenCandidate

\* storage/a.jpg is in none of the directories: the read is tried on the
\* candidate under the app data directory and the error names it.
C14_Witness ==
    /\ cpc = "returned"
    /\ path = <<"s", "t", "o", "r", "a", "g", "e", "/", "a", ".", "j", "p", "g">>
    /\ dirs = DirNames
    /\ \A f \in Files : fs[f] = "absent"
    /\ Len(candidates) = 4
    /\ result = ClipErr("read file failed", APP_DATA_DIR \o <<"/">> \o path)

\* C15: the clipboard is touched on the main thread only; the call does not
\* return a clipboard outcome before the main-thread step has reported, and
\* then returns exactly what was reported; while the dispatched step has
\* neither run nor been dropped the call stays in its wait, without timeout.
ClipboardOps == {"clipboard_init", "set_image"}

C15_MainThreadHandoff ==
    /\ \A i \in DOMAIN trace : trace[i].op \in ClipboardOps => trace[i].by = "main"
    /\ clipboard # ClipboardBefore => \E i \in DOMAIN trace :
          trace[i].op = "set_image" /\ trace[i].by = "main"
    /\ task = "queued" => (cpc = "recv" /\ result = NoResult)
    /\ (cpc = "returned" /\ task = "reported") => (result = chan /\ chan # NoResult)
    /\ (cpc = "returned" /\ result.ok) => (task = "reported" /\ chan = ClipOk)
    /\ (cpc = "returned" /\ result.err \in {"clipboard init failed", "clipboard set image failed"})
          => (task = "reported" /\ chan = result)

\* The step reported a failed clipboard write and the call returned it.
C15_Witness ==
    /\ cpc = "returned"
    /\ task = "reported"
    /\ result = ClipErr("clipboard set image failed", <<>>)
    /\ trace[Len(trace)] = Did("set_image", file_path, "main")

\* C16: the stages run in the order empty check, read, decode, dispatch,
\* clipboard init, clipboard write; the first stage that fails gives the
\* result its own error, no later stage runs, the clipboard is as it was, and
\* no stage is run twice.
StageOf(op) ==
    CASE op = "exists" -> 1
      [] op = "read" -> 2
      [] op = "decode" -> 3
      [] op = "dispatch" -> 4
      [] op = "clipboard_init" -> 5
      [] op = "set_image" -> 6

LastOp == IF trace = <<>> THEN "none" ELSE trace[Len(trace)].op

StagesInOrderOnce ==
    \A i, j \in DOMAIN trace :
        i < j => \/ StageOf(trace[i].op) < StageOf(trace[j].op)
                 \/ /\ trace[i].op = "exists"
                    /\ trace[j].op = "exists"
                    /\ trace[i].arg # trace[j].arg

ErrorOfFirstFailingStage ==
    cpc = "returned" =>
        /\ Blank(path) <=> result = ClipErr("path is empty", <<>>)
        /\ (~Blank(path) /\ ~readable(KindOf(file_path))) <=>
              (result.err = "read file failed" /\ LastOp = "read")
        /\ (~Blank(path) /\ KindOf(file_path) = "garbage") <=>
              (result = ClipErr("decode image failed", <<>>) /\ LastOp = "decode")
        /\ (~Blank(path) /\ KindOf(file_path) = "image") <=>
              \/ result = ClipErr("run_on_main_thread failed", <<>>)
                    /\ LastOp = "dispatch" /\ task = "none"
              \/ result = ClipErr("clipboard task aborted", <<>>)
                    /\ LastOp = "dispatch" /\ task = "dropped"
              \/ result = ClipErr("clipboard init failed", <<>>)
                    /\ LastOp = "clipboard_init"
              \/ result = ClipErr("clipboard set image failed", <<>>)
                    /\ LastOp = "set_image"
              \/ result = ClipOk /\ LastOp = "set_image"
                    /\ clipboard = <<"image", file_path>>

C16_FailureLeavesClipboardUnmodified ==
    /\ StagesInOrderOnce
    /\ ErrorOfFirstFailingStage
    /\ (cpc = "returned" /\ ~result.ok) => clipboard = ClipboardBefore

\* C16 as the code has it: a failure of the clipboard write itself leaves in
\* the clipboard whatever the failed write left; after the failure of any
\* earlier stage the clipboard is as it was.
C16_FailureBeforeWriteLeavesClipboard ==
    /\ StagesInOrderOnce
    /\ ErrorOfFirstFailingStage
    /\ (cpc = "returned" /\ ~result.ok /\ result.err # "clipboard set image failed")
          => clipboard = ClipboardBefore
    /\ clipboard # ClipboardBefore => LastOp = "set_image"

\* A file that is no image: the decode fails, nothing is dispatched.
C16_Witness ==
    /\ cpc = "returned"
    /\ KindOf(file_path) = "garbage"
    /\ result = ClipErr("decode image failed", <<>>)
    /\ LastOp = "decode"
    /\ task = "none"
    /\ clipboard = ClipboardBefore

====
